---- MODULE Spec2Model ----
(***************************************************************************)
(* Model of the note / notetype merge of the package importer              *)
(* (rslib/src/import_export/package/apkg/import/notes.rs).                  *)
(*                                                                         *)
(* One session is NoteContext::new, then import_notetypes over a vector of *)
(* incoming notetypes, then import_notes over a vector of incoming notes.  *)
(* One step of the model is one iteration of one of the two loops.         *)
(*                                                                         *)
(* The main queue of the scheduler (rslib/src/scheduler/queue/main.rs) is  *)
(* modelled beside it: one step is one call of pop_main, push_main or      *)
(* remove_main_learning_card.                                              *)
(***************************************************************************)
EXTENDS Integers, Sequences, FiniteSets, TLC

VARIABLES
    col_notetypes,       \* target_col.storage: notetype id -> Notetype
    col_notes,           \* target_col.storage: note id -> Note
    usn,                 \* NoteContext.usn
    normalize_notes,     \* NoteContext.normalize_notes
    remapped_notetypes,  \* NoteContext.remapped_notetypes
    target_guids,        \* NoteContext.target_guids: guid -> NoteMeta
    target_ids,          \* NoteContext.target_ids
    media_map,           \* NoteContext.media_map: normalized name -> entry name
    imports,             \* NoteContext.imports: [id_map, log]
    pc,                  \* position in import_notes_and_notetypes
    notetype,            \* loop variable of import_notetypes (as received)
    nt_seen,             \* notetypes iterated so far
    note,                \* loop variable of import_notes (as received)
    notes_left,          \* notes of the vector not yet iterated
    outcome,             \* what the last iteration of import_notes did
    main,                \* CardQueues.main: sequence of MainQueueEntry
    counts,              \* CardQueues.counts: [new, learning, review]
    popped,              \* what the last pop_main / remove_main_learning_card
                         \* returned: <<>> for None, <<entry>> for Some(entry)
    last_call,           \* the last call on the queues: [op, arg]
    before_pop           \* main and counts as they were before that call

vars == <<col_notetypes, col_notes, usn, normalize_notes, remapped_notetypes,
          target_guids, target_ids, media_map, imports, pc, nt_seen,
          notes_left, outcome, main, counts, popped, last_call, before_pop,
          notetype, note>>

(***************************************************************************)
(* Bounds of the model.                                                    *)
(***************************************************************************)
\* longest vector of incoming notes
MaxNotes == 2
\* longest vector of incoming notetypes
MaxNotetypes == 2
\* width of a note identifier: the program's NoteId is an i64; the model
\* keeps the two's complement arithmetic and scales the width down
IdBits == 16
\* longest main queue
MaxQueue == 2
\* width of a count of the queues: the program's counts are usize
CountBits == 3

(***************************************************************************)
(* Program constants.                                                      *)
(***************************************************************************)
\* note.id.0 += 999
IdStep == 999

\* i64::MAX, at the width of the model
MaxNoteId == 2^(IdBits - 1) - 1

None == "none"

(***************************************************************************)
(* Finite maps (HashMap / storage tables).                                 *)
(***************************************************************************)
EmptyMap == [x \in {} |-> None]

\* HashMap::insert, INSERT OR REPLACE
Put(f, k, v) == [x \in DOMAIN f \cup {k} |-> IF x = k THEN v ELSE f[x]]

(***************************************************************************)
(* Notetypes.                                                              *)
(***************************************************************************)
Notetype(id, name, fields, templates, mtime_secs, u) ==
    [id |-> id, name |-> name, fields |-> fields, templates |-> templates,
     mtime_secs |-> mtime_secs, usn |-> u]

RECURSIVE Bytes(_)
\* the byte stream a sequence of hasher.update(name.as_bytes()) calls feeds
Bytes(names) ==
    IF names = <<>> THEN "" ELSE Head(names) \o Bytes(Tail(names))

\* Sha1 is taken as injective on its input stream: the digest is modelled by
\* the stream itself (field names first, then template names).
schema_hash(nt) == Bytes(nt.fields) \o Bytes(nt.templates)

\* line 130: incoming.schema_hash() == existing.schema_hash()
same_schema(incoming, existing) == schema_hash(incoming) = schema_hash(existing)

\* the comparison of line 131, also true of equal modification times
incoming_is_not_older(incoming, existing) == incoming.mtime_secs >= existing.mtime_secs

\* line 131: incoming.mtime_secs > existing.mtime_secs
incoming_is_newer(incoming, existing) == incoming.mtime_secs > existing.mtime_secs

\* Collection::ensure_notetype_name_unique: a display name already used by
\* another notetype of the target is changed.
ensure_notetype_name_unique(col, nt) ==
    IF \E i \in DOMAIN col : i # nt.id /\ col[i].name = nt.name
    THEN [nt EXCEPT !.name = nt.name \o "+"]
    ELSE nt

RECURSIVE unique_names(_, _)
\* Notetype::ensure_names_unique over a sequence of names: a name that an
\* earlier one of the sequence has is lengthened by "+" until none has it
unique_names(seen, names) ==
    IF names = <<>> THEN <<>>
    ELSE IF Head(names) \in seen
         THEN unique_names(seen, <<Head(names) \o "+">> \o Tail(names))
         ELSE <<Head(names)>> \o unique_names(seen \cup {Head(names)}, Tail(names))

\* Notetype::prepare_for_update(None, true) returns an error: the notetype
\* has no field, no template or no name
notetype_prepare_fails(nt) ==
    nt.fields = <<>> \/ nt.templates = <<>> \/ nt.name = ""

\* Notetype::prepare_for_update(None, true), when it returns Ok: the
\* notetype with its field names and its template names made unique
notetype_prepare_for_update(nt) ==
    [nt EXCEPT !.fields = unique_names({}, nt.fields),
               !.templates = unique_names({}, nt.templates)]

\* add_notetype, when line 141 returns Ok: the prepared notetype is stored
\* under its own identifier.
add_notetype(col, nt, u) ==
    LET prepared == notetype_prepare_for_update(nt)
    IN  Put(col, nt.id, [ensure_notetype_name_unique(col, prepared) EXCEPT !.usn = u])

\* update_notetype: the stored notetype is overwritten in place.
update_notetype(col, nt, u) == Put(col, nt.id, [nt EXCEPT !.usn = u])

\* add_notetype_with_remapped_id, storage part: mem::take leaves id 0 and
\* add_notetype_inner stores the notetype under the identifier new_id that
\* the storage allocates.
add_notetype_with_remapped_id(col, nt, u, new_id) ==
    Put(col, new_id, [nt EXCEPT !.id = new_id, !.usn = u])

\* line 160 with its arguments exchanged
record_remap_swapped(remap, old_id, new_id) == Put(remap, new_id, old_id)

\* add_notetype_with_remapped_id, line 160
record_remap(remap, old_id, new_id) == Put(remap, old_id, new_id)

\* the identifier the storage allocates to a notetype stored with id 0: one
\* that no notetype of the target has and no incoming notetype carries (the
\* unused identifiers are interchangeable, the next one is taken)
alloc_notetype_id(col) ==
    LET used == DOMAIN col \cup {2}
    IN  1 + CHOOSE i \in used : \A j \in used : j <= i

(***************************************************************************)
(* Note fields.  A field is a sequence of tokens: plain text, or a media   *)
(* reference <img src='val'>.                                              *)
(***************************************************************************)
Text(s) == [kind |-> "text", val |-> s]
Img(name) == [kind |-> "img", val |-> name]

\* Unicode normalization (NFC) of a string: "nfd..." stands for a string
\* that is not in normal form, "nfc..." for its normal form.
Nfc(s) ==
    CASE s = "nfd" -> "nfc"
      [] s = "nfd.jpg" -> "nfc.jpg"
      [] OTHER -> s

\* names safe_normalized_file_name rejects
UnsafeNames == {"../up.jpg"}

\* safe_normalized_file_name: Err for an unsafe name, else the normal form
\* (Cow::Owned exactly when it differs from the name).
safe_normalized_file_name(name) ==
    IF name \in UnsafeNames THEN None ELSE Nfc(name)

\* the closure without the `else if` of lines 268-270
media_rename_by_map_only(mm, name) ==
    LET normalized == safe_normalized_file_name(name) IN
    IF normalized = None THEN None
    ELSE IF normalized \in DOMAIN mm
         THEN IF mm[normalized] # name THEN mm[normalized] ELSE None
         ELSE None

\* the closure handed to replace_media_refs (lines 260-273): the name to put
\* in place of `name`, or None
media_rename(mm, name) ==
    LET normalized == safe_normalized_file_name(name) IN
    IF normalized = None THEN None
    ELSE IF normalized \in DOMAIN mm
         THEN IF mm[normalized] # name THEN mm[normalized] ELSE None
         ELSE IF normalized # name THEN normalized ELSE None

\* text::replace_media_refs over one field with that closure
replace_media_refs(mm, field) ==
    [i \in DOMAIN field |->
        IF field[i].kind = "img" /\ media_rename(mm, field[i].val) # None
        THEN Img(media_rename(mm, field[i].val))
        ELSE field[i]]

\* munge_media with line 253 left out
munge_media_dropped(mm, n) == n

\* munge_media: every field of the note
munge_media(mm, n) ==
    [n EXCEPT !.fields = [i \in DOMAIN n.fields |-> replace_media_refs(mm, n.fields[i])]]

\* Note::prepare_for_update: field normalization, if enabled
prepare_for_update(n, normalize) ==
    IF normalize
    THEN [n EXCEPT !.fields =
            [i \in DOMAIN n.fields |->
                [j \in DOMAIN n.fields[i] |->
                    [n.fields[i][j] EXCEPT !.val = Nfc(n.fields[i][j].val)]]]]
    ELSE n

(***************************************************************************)
(* Notes, NoteMeta, the log.                                               *)
(***************************************************************************)
Note(id, guid, notetype_id, mtime, u, fields) ==
    [id |-> id, guid |-> guid, notetype_id |-> notetype_id, mtime |-> mtime,
     usn |-> u, fields |-> fields]

NoteMeta(id, mtime, notetype_id) ==
    [id |-> id, mtime |-> mtime, notetype_id |-> notetype_id]

\* storage.note_guid_map
note_guid_map(notes) ==
    [g \in {notes[i].guid : i \in DOMAIN notes} |->
        LET n == notes[CHOOSE i \in DOMAIN notes : notes[i].guid = g]
        IN  NoteMeta(n.id, n.mtime, n.notetype_id)]

\* Note::into_log_note: the identifier and the fields with markup stripped,
\* media file names kept ("<img src='bar.jpg'>" is logged as " bar.jpg ")
into_log_note(n) ==
    [id |-> n.id,
     fields |-> [i \in DOMAIN n.fields |->
                    [j \in DOMAIN n.fields[i] |->
                        IF n.fields[i][j].kind = "img"
                        THEN Text(" " \o n.fields[i][j].val \o " ")
                        ELSE n.fields[i][j]]]]

NoteImportsDefault ==
    [id_map |-> EmptyMap,
     log |-> [new |-> <<>>, updated |-> <<>>, duplicate |-> <<>>,
              conflicting |-> <<>>, found_notes |-> 0]]

log_new(imp, n, source_id) ==
    [id_map |-> Put(imp.id_map, source_id, n.id),
     log |-> [imp.log EXCEPT !.new = Append(@, into_log_note(n))]]

\* log_updated keyed on the identifier the note has after line 233
log_updated_by_target_id(imp, n, source_id) ==
    [id_map |-> Put(imp.id_map, n.id, n.id),
     log |-> [imp.log EXCEPT !.updated = Append(@, into_log_note(n))]]

log_updated(imp, n, source_id) ==
    [id_map |-> Put(imp.id_map, source_id, n.id),
     log |-> [imp.log EXCEPT !.updated = Append(@, into_log_note(n))]]

\* log_duplicate without line 55
log_duplicate_keeping_id(imp, n, target_id) ==
    [id_map |-> Put(imp.id_map, n.id, target_id),
     log |-> [imp.log EXCEPT !.duplicate = Append(@, into_log_note(n))]]

log_duplicate(imp, n, target_id) ==
    [id_map |-> Put(imp.id_map, n.id, target_id),
     log |-> [imp.log EXCEPT
                !.duplicate = Append(@, into_log_note([n EXCEPT !.id = target_id]))]]

\* log_conflicting with an identity map entry, as the other three have
log_conflicting_mapped(imp, n) ==
    [id_map |-> Put(imp.id_map, n.id, n.id),
     log |-> [imp.log EXCEPT !.conflicting = Append(@, into_log_note(n))]]

log_conflicting(imp, n) ==
    [id_map |-> imp.id_map,
     log |-> [imp.log EXCEPT !.conflicting = Append(@, into_log_note(n))]]

\* uniquify_note_id without its loop
uniquify_note_id_skipped(ids, id) == id

\* uniquify_note_id with `if` for `while`
uniquify_note_id_once(ids, id) == IF id \in ids THEN id + IdStep ELSE id

\* note.id.0 += 999 where the sum is out of range, in a build without
\* overflow checks: two's complement wrapping
wrapping_add(id, step) ==
    IF id + step > MaxNoteId THEN id + step - 2^IdBits ELSE id + step

RECURSIVE uniquify_overflows(_, _)
\* the loop of uniquify_note_id comes to an addition whose sum is out of
\* range: a panic in a build with overflow checks, wrapping in one without
uniquify_overflows(ids, id) ==
    IF id \notin ids THEN FALSE
    ELSE IF id + IdStep > MaxNoteId THEN TRUE
    ELSE uniquify_overflows(ids, id + IdStep)

RECURSIVE uniquify_note_id(_, _)
\* uniquify_note_id: the identifier the note ends with (the function itself
\* returns the identifier the note came with)
uniquify_note_id(ids, id) ==
    IF id \in ids THEN uniquify_note_id(ids, wrapping_add(id, IdStep)) ELSE id

(***************************************************************************)
(* The target collection at the start of a session, and the incoming data. *)
(***************************************************************************)
BasicFields == <<"Front", "Back">>
BasicTemplates == <<"Card 1">>

\* the notetype the target collection starts with
Basic == Notetype(1, "Basic", BasicFields, BasicTemplates, 2, 0)

OldFields == <<<<Text("old")>>>>

Note1 == Note(1, "g1", 1, 2, 0, OldFields)
Note1000 == Note(1000, "g2", 1, 3, 0, OldFields)

\* the note tables a session may start from
TargetNotes ==
    {EmptyMap, (1 :> Note1), (1 :> Note1) @@ (1000 :> Note1000)}

\* the media use map the package parsing phase hands over
MediaUseMap == ("foo.jpg" :> "bar.jpg") @@ ("same.jpg" :> "same.jpg")

\* incoming notes
NoteIds == {1, 1000}
Guids == {"g1", "g2"}
Mtimes == {2, 3}
NotetypeIds == {1, 2}
FieldPool == {<<<<Text("plain")>>>>, <<<<Text("nfd"), Img("foo.jpg")>>>>}

NotePool ==
    {Note(i, g, t, m, 0, f) :
        i \in NoteIds, g \in Guids, t \in NotetypeIds, m \in Mtimes, f \in FieldPool}

\* incoming notetypes
NotetypeMtimes == {1, 2, 3}
FieldNamePool ==
    {BasicFields, <<"Front", "Extra">>, <<"Fro", "ntBack">>,
     <<"Front", "Front">>, <<>>}

NotetypePool ==
    {Notetype(i, "Basic", f, BasicTemplates, m, 0) :
        i \in NotetypeIds, f \in FieldNamePool, m \in NotetypeMtimes}

\* the queues of the scheduler, which an import session does not touch
QueuesIdle ==
    /\ main = <<>>
    /\ counts = [new |-> 0, learning |-> 0, review |-> 0]
    /\ popped = <<>>
    /\ last_call = [op |-> None, arg |-> <<>>]
    /\ before_pop = [main |-> <<>>, counts |-> counts]

QueuesUnchanged == UNCHANGED <<main, counts, popped, last_call, before_pop>>

\* NoteContext::new over a target collection
Init ==
    /\ col_notetypes = (1 :> Basic)
    /\ col_notes \in TargetNotes
    /\ usn = 1
    /\ normalize_notes \in BOOLEAN
    /\ remapped_notetypes = EmptyMap
    /\ target_guids = note_guid_map(col_notes)
    /\ target_ids = DOMAIN col_notes
    /\ media_map = MediaUseMap
    /\ imports = NoteImportsDefault
    /\ pc = "notetypes"
    /\ notetype = None
    /\ nt_seen = 0
    /\ note = None
    /\ notes_left = 0
    /\ outcome = None
    /\ QueuesIdle

(***************************************************************************)
(* import_notetypes: one iteration of the loop.                            *)
(***************************************************************************)
NotesUnchanged ==
    UNCHANGED <<col_notes, usn, normalize_notes, target_guids, target_ids,
                media_map, imports, note, notes_left>>

\* the iteration returns Ok: the loop of import_notetypes goes on
NotetypeDone == UNCHANGED <<pc, outcome>>

\* line 141: prepare_for_update returns an error, which the `?` of lines
\* 141 and 119 hand on: import_notetypes returns it, nothing is stored
InvalidNotetype ==
    /\ pc' = "failed"
    /\ outcome' = "invalid_notetype"
    /\ UNCHANGED <<col_notetypes, remapped_notetypes>>

\* lines 118-119: no notetype with that identifier in the target
AddNotetype(nt) ==
    /\ nt.id \notin DOMAIN col_notetypes
    /\ IF notetype_prepare_fails(nt)
       THEN InvalidNotetype
       ELSE /\ col_notetypes' = add_notetype(col_notetypes, nt, usn)
            /\ UNCHANGED remapped_notetypes
            /\ NotetypeDone

\* lines 130-133: same schema; overwritten if the incoming one is newer
MergeNotetype(nt) ==
    /\ nt.id \in DOMAIN col_notetypes
    /\ same_schema(nt, col_notetypes[nt.id])
    /\ col_notetypes' =
          IF incoming_is_newer(nt, col_notetypes[nt.id])
          THEN update_notetype(col_notetypes, nt, usn)
          ELSE col_notetypes
    /\ UNCHANGED remapped_notetypes
    /\ NotetypeDone

\* lines 134-136: the schema has changed
RemapNotetype(nt) ==
    /\ nt.id \in DOMAIN col_notetypes
    /\ ~same_schema(nt, col_notetypes[nt.id])
    /\ LET new_id == alloc_notetype_id(col_notetypes)
       IN  /\ col_notetypes' = add_notetype_with_remapped_id(col_notetypes, nt, usn, new_id)
           /\ remapped_notetypes' = record_remap(remapped_notetypes, nt.id, new_id)
           /\ NotetypeDone

ImportNotetype(nt) ==
    /\ pc = "notetypes"
    /\ nt_seen < MaxNotetypes
    /\ notetype' = nt
    /\ nt_seen' = nt_seen + 1
    /\ \/ AddNotetype(nt)
       \/ MergeNotetype(nt)
       \/ RemapNotetype(nt)
    /\ NotesUnchanged
    /\ QueuesUnchanged

(***************************************************************************)
(* import_notes.                                                           *)
(***************************************************************************)
\* the frame of import_notes with the GUID index rebuilt from the storage
\* after every note
GuidIndexRefreshed ==
    /\ UNCHANGED <<col_notetypes, usn, normalize_notes, remapped_notetypes,
                   media_map, notetype, nt_seen>>
    /\ target_guids' = note_guid_map(col_notes')

\* what import_notes leaves alone: the notetypes, the configuration, the
\* remapping table, the GUID index, the media use map
NotetypesUnchanged ==
    UNCHANGED <<col_notetypes, usn, normalize_notes, remapped_notetypes,
                target_guids, media_map, notetype, nt_seen>>

\* lines 171, 196-197: the loop goes on while notes are left, then
\* import_notes returns Ok and the session ends with Ok(ctx.imports)
after_note(left) == IF left = 0 THEN "done" ELSE "notes"

\* lines 169-170: import_notetypes has returned (its loop variable is gone);
\* the vector of notes has length len
BeginImportNotes(len) ==
    /\ pc = "notetypes"
    /\ pc' = after_note(len)
    /\ notes_left' = len
    /\ imports' = [imports EXCEPT !.log.found_notes = len]
    /\ notetype' = None
    /\ nt_seen' = 0
    /\ UNCHANGED <<col_notes, target_ids, note, outcome>>
    /\ UNCHANGED <<col_notetypes, usn, normalize_notes, remapped_notetypes,
                   target_guids, media_map>>
    /\ QueuesUnchanged

\* line 172 without its `?`: the error of the progress reporter is dropped
ProgressFailureIgnored ==
    /\ pc = "notes"
    /\ notes_left > 0
    /\ pc' = "notes"
    /\ outcome' = "progress"
    /\ UNCHANGED <<col_notes, target_ids, imports, note, notes_left>>
    /\ NotetypesUnchanged
    /\ QueuesUnchanged

\* line 172: the progress reporter fails; import_notes returns its error
ProgressFails ==
    /\ pc = "notes"
    /\ notes_left > 0
    /\ pc' = "failed"
    /\ outcome' = "progress"
    /\ UNCHANGED <<col_notes, target_ids, imports, note, notes_left>>
    /\ NotetypesUnchanged
    /\ QueuesUnchanged

\* the comparison of line 175, also true of equal modification times
existing_is_not_newer(existing_note, n) == existing_note.mtime <= n.mtime

\* line 175
existing_is_older(existing_note, n) == existing_note.mtime < n.mtime

\* the test of lines 176-177 without its first disjunct
is_conflicting_only_if_remapped(existing_note, n, remap) ==
    n.notetype_id \in DOMAIN remap

\* the test of lines 176-177 without its second disjunct
is_conflicting_by_id_only(existing_note, n, remap) ==
    existing_note.notetype_id # n.notetype_id

\* lines 173, 176-177: remapped_notetype_id.is_some() is membership of the
\* note's notetype identifier in the table
is_conflicting(existing_note, n, remap) ==
    \/ existing_note.notetype_id # n.notetype_id
    \/ n.notetype_id \in DOMAIN remap

\* lines 188-192 left out: the note keeps the notetype identifier it came with
keep_notetype_id(n, remap) == n

\* lines 188-192: a new note takes the remapped notetype identifier
remap_new_note(n, remap) ==
    IF n.notetype_id \in DOMAIN remap
    THEN [n EXCEPT !.notetype_id = remap[n.notetype_id]]
    ELSE n

\* the error of or_not_found dropped instead of returned with `?`
NotFoundIgnored ==
    /\ pc' = after_note(notes_left')
    /\ outcome' = "not_found"
    /\ UNCHANGED <<col_notes, target_ids, imports>>

\* the error of or_not_found
NotFound ==
    /\ pc' = "failed"
    /\ outcome' = "not_found"
    /\ UNCHANGED <<col_notes, target_ids, imports>>

\* line 218 in a build with overflow checks, the sum being out of range:
\* the thread panics inside uniquify_note_id, before the insert
OverflowPanic ==
    /\ pc' = "failed"
    /\ outcome' = "panic"
    /\ UNCHANGED <<col_notes, target_ids, imports>>

\* add_note; where an addition of uniquify_note_id is out of range, what
\* happens depends on the build: a panic, or the insert under the wrapped
\* identifier
AddNote(n0) ==
    LET munged == munge_media(media_map, n0)
    IN  IF munged.notetype_id \notin DOMAIN col_notetypes
        THEN NotFound
        ELSE LET prepared == [prepare_for_update(munged, normalize_notes)
                                EXCEPT !.usn = usn]
                 stored == [prepared EXCEPT
                                !.id = uniquify_note_id(target_ids, prepared.id)]
             IN  \/ /\ uniquify_overflows(target_ids, prepared.id)
                    /\ OverflowPanic
                 \/ /\ col_notes' = Put(col_notes, stored.id, stored)
                    /\ target_ids' = target_ids \cup {stored.id}
                    /\ imports' = log_new(imports, stored, prepared.id)
                    /\ outcome' = "new"
                    /\ pc' = after_note(notes_left')

\* update_note
UpdateNote(n0, target_id) ==
    LET source_id == n0.id
        munged == munge_media(media_map, [n0 EXCEPT !.id = target_id])
    IN  IF \/ munged.id \notin DOMAIN col_notes
           \/ munged.notetype_id \notin DOMAIN col_notetypes
        THEN NotFound
        ELSE LET stored == [prepare_for_update(munged, normalize_notes)
                                EXCEPT !.usn = usn]
             IN  /\ col_notes' = Put(col_notes, stored.id, stored)
                 /\ imports' = log_updated(imports, stored, source_id)
                 /\ outcome' = "updated"
                 /\ pc' = after_note(notes_left')
                 /\ UNCHANGED target_ids

\* lines 171-195: one iteration of the loop, the progress reporter succeeding
ImportNote(n) ==
    /\ pc = "notes"
    /\ notes_left > 0
    /\ note' = n
    /\ notes_left' = notes_left - 1
    /\ IF n.guid \in DOMAIN target_guids
       THEN LET existing_note == target_guids[n.guid]
            IN  IF existing_is_older(existing_note, n)
                THEN IF is_conflicting(existing_note, n, remapped_notetypes)
                     THEN /\ imports' = log_conflicting(imports, n)
                          /\ outcome' = "conflicting"
                          /\ pc' = after_note(notes_left')
                          /\ UNCHANGED <<col_notes, target_ids>>
                     ELSE UpdateNote(n, existing_note.id)
                ELSE /\ imports' = log_duplicate(imports, n, existing_note.id)
                     /\ outcome' = "duplicate"
                     /\ pc' = after_note(notes_left')
                     /\ UNCHANGED <<col_notes, target_ids>>
       ELSE AddNote(remap_new_note(n, remapped_notetypes))
    /\ NotetypesUnchanged
    /\ QueuesUnchanged

(***************************************************************************)
(* The main queue (scheduler/queue/main.rs).                               *)
(***************************************************************************)
MainQueueEntry(id, mtime, kind) == [id |-> id, mtime |-> mtime, kind |-> kind]

MainQueueEntryKind == {"New", "Review", "InterdayLearning"}

\* usize::MAX, at the width of the model
MaxCount == 2^CountBits - 1

\* usize::saturating_sub
saturating_sub(c, d) == IF c < d THEN 0 ELSE c - d

\* `-= 1` and `+= 1` on a usize in a build without overflow checks
wrapping_dec(c) == IF c = 0 THEN MaxCount ELSE c - 1
wrapping_inc(c) == IF c = MaxCount THEN 0 ELSE c + 1

\* reduce_counts with the learning count reduced as the other two are
reduce_counts_unsaturated(c, entry) ==
    CASE entry.kind = "New" -> [c EXCEPT !.new = wrapping_dec(@)]
      [] entry.kind = "Review" -> [c EXCEPT !.review = wrapping_dec(@)]
      [] entry.kind = "InterdayLearning" -> [c EXCEPT !.learning = wrapping_dec(@)]

\* reduce_counts
reduce_counts(c, entry) ==
    CASE entry.kind = "New" -> [c EXCEPT !.new = wrapping_dec(@)]
      [] entry.kind = "Review" -> [c EXCEPT !.review = wrapping_dec(@)]
      [] entry.kind = "InterdayLearning" ->
            [c EXCEPT !.learning = saturating_sub(@, 1)]

\* a `-= 1` of reduce_counts is out of range: a panic in a build with
\* overflow checks, wrapping in one without
reduce_underflows(c, entry) ==
    \/ entry.kind = "New" /\ c.new = 0
    \/ entry.kind = "Review" /\ c.review = 0

\* push_main, lines 45-49
raise_counts(c, entry) ==
    CASE entry.kind = "New" -> [c EXCEPT !.new = wrapping_inc(@)]
      [] entry.kind = "Review" -> [c EXCEPT !.review = wrapping_inc(@)]
      [] entry.kind = "InterdayLearning" -> [c EXCEPT !.learning = wrapping_inc(@)]

\* a `+= 1` of push_main is out of range
raise_overflows(c, entry) ==
    \/ entry.kind = "New" /\ c.new = MaxCount
    \/ entry.kind = "Review" /\ c.review = MaxCount
    \/ entry.kind = "InterdayLearning" /\ c.learning = MaxCount

\* VecDeque::push_front
push_front(q, entry) == <<entry>> \o q

\* VecDeque::remove(position)
remove_at(q, position) ==
    SubSeq(q, 1, position - 1) \o SubSeq(q, position + 1, Len(q))

\* what a call on the queues leaves alone
ImportUnchanged ==
    UNCHANGED <<col_notetypes, col_notes, usn, normalize_notes,
                remapped_notetypes, target_guids, target_ids, media_map,
                imports, pc, notetype, nt_seen, note, notes_left, outcome>>

Call(op, arg) == [op |-> op, arg |-> arg]

\* an arithmetic overflow in a build with overflow checks: the thread panics
QueuePanic == last_call' = Call("panic", <<>>)

\* pop_main
PopMain ==
    /\ pc = "queue"
    /\ last_call.op # "panic"
    /\ before_pop' = [main |-> main, counts |-> counts]
    /\ IF main = <<>>
       THEN /\ popped' = <<>>
            /\ last_call' = Call("pop_main", <<>>)
            /\ UNCHANGED <<main, counts>>
       ELSE LET head == Head(main)
            IN  /\ main' = Tail(main)
                /\ \/ /\ reduce_underflows(counts, head)
                      /\ QueuePanic
                      /\ UNCHANGED <<counts, popped>>
                   \/ /\ counts' = reduce_counts(counts, head)
                      /\ popped' = <<head>>
                      /\ last_call' = Call("pop_main", <<>>)
    /\ ImportUnchanged

\* push_main: any entry, be a card of its identifier in the queue or not
\* (the queue of the model holds MaxQueue entries at most)
PushMain(entry) ==
    /\ pc = "queue"
    /\ last_call.op # "panic"
    /\ Len(main) < MaxQueue
    /\ \/ /\ raise_overflows(counts, entry)
          /\ QueuePanic
          /\ UNCHANGED <<main, counts>>
       \/ /\ counts' = raise_counts(counts, entry)
          /\ main' = push_front(main, entry)
          /\ last_call' = Call("push_main", <<entry>>)
    /\ UNCHANGED <<popped, before_pop>>
    /\ ImportUnchanged

\* remove_main_learning_card
RemoveMainLearningCard(card_id) ==
    /\ pc = "queue"
    /\ last_call.op # "panic"
    /\ before_pop' = [main |-> main, counts |-> counts]
    /\ IF \E i \in DOMAIN main : main[i].id = card_id
       THEN LET position == CHOOSE i \in DOMAIN main :
                                /\ main[i].id = card_id
                                /\ \A j \in 1..(i - 1) : main[j].id # card_id
                entry == main[position]
            IN  /\ main' = remove_at(main, position)
                /\ \/ /\ reduce_underflows(counts, entry)
                      /\ QueuePanic
                      /\ UNCHANGED <<counts, popped>>
                   \/ /\ counts' = reduce_counts(counts, entry)
                      /\ popped' = <<entry>>
                      /\ last_call' = Call("remove_main_learning_card", <<>>)
       ELSE /\ popped' = <<>>
            /\ last_call' = Call("remove_main_learning_card", <<>>)
            /\ UNCHANGED <<main, counts>>
    /\ ImportUnchanged

\* the cards the queues are built from
CardIds == 1..4

EntryPool ==
    {MainQueueEntry(1, 0, "New"), MainQueueEntry(2, 0, "Review"),
     MainQueueEntry(3, 0, "InterdayLearning"),
     MainQueueEntry(4, 0, "InterdayLearning")}

\* main queues: a card is queued once
MainQueues ==
    {q \in UNION {[1..n -> EntryPool] : n \in 0..MaxQueue} :
        \A i, j \in DOMAIN q : i # j => q[i].id # q[j].id}

CountOf(q, kind) == Cardinality({i \in DOMAIN q : q[i].kind = kind})

\* the queues as built: the new and review counts are those of the main
\* queue; the learning count also covers the intraday learning queue (here
\* of at most one card), and may be short of the main queue's learning
\* entries (the bug that the comment of lines 27-29 speaks of)
InitQueue ==
    /\ main \in MainQueues
    /\ \E learning \in 0..(CountOf(main, "InterdayLearning") + 1) :
          counts = [new |-> CountOf(main, "New"),
                    learning |-> learning,
                    review |-> CountOf(main, "Review")]
    /\ popped = <<>>
    /\ last_call = Call(None, <<>>)
    /\ before_pop = [main |-> main, counts |-> counts]
    /\ col_notetypes = (1 :> Basic)
    /\ col_notes = EmptyMap
    /\ usn = 1
    /\ normalize_notes = FALSE
    /\ remapped_notetypes = EmptyMap
    /\ target_guids = EmptyMap
    /\ target_ids = {}
    /\ media_map = EmptyMap
    /\ imports = NoteImportsDefault
    /\ pc = "queue"
    /\ notetype = None
    /\ nt_seen = 0
    /\ note = None
    /\ notes_left = 0
    /\ outcome = None

NextQueue ==
    \/ PopMain
    \/ \E entry \in EntryPool : PushMain(entry)
    \/ \E card_id \in CardIds : RemoveMainLearningCard(card_id)

SpecQueue == InitQueue /\ [][NextQueue]_vars

(***************************************************************************)
(* Specifications.                                                         *)
(***************************************************************************)
\* the notetypes a session of Spec imports: one whose schema has changed,
\* one the target does not have
FewNotetypes ==
    {Notetype(1, "Basic", <<"Front", "Extra">>, BasicTemplates, 3, 0),
     Notetype(2, "Basic", BasicFields, BasicTemplates, 3, 0)}

\* the notes a session of SpecNt imports
FewNotes ==
    {Note(1000, "g2", 1, 3, 0, <<<<Text("plain")>>>>),
     Note(1, "g1", 2, 3, 0, <<<<Text("plain")>>>>)}

Next ==
    \/ \E nt \in FewNotetypes : ImportNotetype(nt)
    \/ \E len \in 0..MaxNotes : BeginImportNotes(len)
    \/ ProgressFails
    \/ \E n \in NotePool : ImportNote(n)

Spec == Init /\ [][Next]_vars

NextNt ==
    \/ \E nt \in NotetypePool : ImportNotetype(nt)
    \/ \E len \in 0..MaxNotes : BeginImportNotes(len)
    \/ ProgressFails
    \/ \E n \in FewNotes : ImportNote(n)

SpecNt == Init /\ [][NextNt]_vars

\* media use maps the package parsing phase may hand over: the name a map
\* resolves to is a file name of the target's media folder, hence in normal
\* form
MediaUseMaps ==
    {EmptyMap,
     MediaUseMap,
     MediaUseMap @@ ("nfc.jpg" :> "nfc.jpg"),
     MediaUseMap @@ ("nfc.jpg" :> "nfc-1.jpg")}

\* fields with media references of every sort: renamed by the map, not in
\* normal form, unsafe, mapped to itself, unknown to the map
MediaFieldPool ==
    {<<<<Img("foo.jpg"), Text("plain"), Img("nfd.jpg")>>>>,
     <<<<Img("../up.jpg"), Img("same.jpg")>>, <<Img("plain.jpg")>>>>}

\* the notes a session of SpecMedia imports
MediaNotes ==
    {Note(1, g, 1, 3, 0, f) : g \in {"g1", "g3"}, f \in MediaFieldPool}

\* NoteContext::new, the media use map being any of MediaUseMaps
InitMedia ==
    /\ col_notetypes = (1 :> Basic)
    /\ col_notes \in TargetNotes
    /\ usn = 1
    /\ normalize_notes \in BOOLEAN
    /\ remapped_notetypes = EmptyMap
    /\ target_guids = note_guid_map(col_notes)
    /\ target_ids = DOMAIN col_notes
    /\ media_map \in MediaUseMaps
    /\ imports = NoteImportsDefault
    /\ pc = "notetypes"
    /\ notetype = None
    /\ nt_seen = 0
    /\ note = None
    /\ notes_left = 0
    /\ outcome = None
    /\ QueuesIdle

NextMedia ==
    \/ \E nt \in {Basic} : ImportNotetype(nt)
    \/ \E len \in 0..MaxNotes : BeginImportNotes(len)
    \/ ProgressFails
    \/ \E n \in MediaNotes : ImportNote(n)

SpecMedia == InitMedia /\ [][NextMedia]_vars

\* an identifier less than one step below the largest one
TopId == MaxNoteId - 500

NoteTop == Note(TopId, "g1", 1, 2, 0, OldFields)

\* the notes a session of SpecIds imports
IdNotes ==
    {Note(i, g, 1, 3, 0, <<<<Text("plain")>>>>) :
        i \in {1, TopId}, g \in {"g2", "g3"}}

\* NoteContext::new over a target that may hold a note of identifier TopId
InitIds ==
    /\ col_notetypes = (1 :> Basic)
    /\ col_notes \in {EmptyMap, (1 :> Note1), (TopId :> NoteTop)}
    /\ usn = 1
    /\ normalize_notes \in BOOLEAN
    /\ remapped_notetypes = EmptyMap
    /\ target_guids = note_guid_map(col_notes)
    /\ target_ids = DOMAIN col_notes
    /\ media_map = MediaUseMap
    /\ imports = NoteImportsDefault
    /\ pc = "notetypes"
    /\ notetype = None
    /\ nt_seen = 0
    /\ note = None
    /\ notes_left = 0
    /\ outcome = None
    /\ QueuesIdle

NextIds ==
    \/ \E nt \in {Basic} : ImportNotetype(nt)
    \/ \E len \in 0..MaxNotes : BeginImportNotes(len)
    \/ ProgressFails
    \/ \E n \in IdNotes : ImportNote(n)

SpecIds == InitIds /\ [][NextIds]_vars

(***************************************************************************)
(* Vocabulary of the properties.                                           *)
(***************************************************************************)
\* this step is one iteration of the loop of import_notes over note'
NoteStep == pc = "notes" /\ notes_left' = notes_left - 1

\* this step is one iteration of the loop of import_notetypes over notetype'
NotetypeStep == pc = "notetypes" /\ nt_seen' = nt_seen + 1

\* the iteration ran to its end (no `?` returned an error)
Completed == outcome' \in {"new", "updated", "duplicate", "conflicting"}

Kinds == {"new", "updated", "duplicate", "conflicting"}

\* this step appends one entry to the log sequence `kind` and leaves the
\* other three as they are
LoggedOnlyUnder(kind) ==
    /\ Len(imports'.log[kind]) = Len(imports.log[kind]) + 1
    /\ SubSeq(imports'.log[kind], 1, Len(imports.log[kind])) = imports.log[kind]
    /\ \A k \in Kinds \ {kind} : imports'.log[k] = imports.log[k]

Last(seq) == seq[Len(seq)]

\* this step stores one more note, under identifier id, and changes no other
InsertedAs(id) ==
    /\ id \notin DOMAIN col_notes
    /\ DOMAIN col_notes' = DOMAIN col_notes \cup {id}
    /\ \A k \in DOMAIN col_notes : col_notes'[k] = col_notes[k]

\* the file name a media reference to `name` is to carry in the target: the
\* name itself if it cannot be normalized, else the media map's name for its
\* normal form, else its normal form
RewrittenName(name) ==
    IF name \in UnsafeNames THEN name
    ELSE IF Nfc(name) \in DOMAIN media_map THEN media_map[Nfc(name)]
    ELSE Nfc(name)

\* the fields of note n once its media references are rewritten and its
\* fields normalized (if enabled)
RewrittenFields(n) ==
    [i \in DOMAIN n.fields |->
        [j \in DOMAIN n.fields[i] |->
            LET t == n.fields[i][j]
                v == IF t.kind = "img" THEN RewrittenName(t.val) ELSE t.val
            IN  [kind |-> t.kind, val |-> IF normalize_notes THEN Nfc(v) ELSE v]]]

\* the incoming note is new: its GUID is not in the GUID index
IsNew(n) == n.guid \notin DOMAIN target_guids

\* the incoming note matches an indexed note that is not older than it
IsDuplicate(n) ==
    /\ n.guid \in DOMAIN target_guids
    /\ target_guids[n.guid].mtime >= n.mtime

\* the incoming note is newer than the indexed note and its notetype
\* identifier differs from that note's or is in the remapping table
IsConflict(n) ==
    /\ n.guid \in DOMAIN target_guids
    /\ target_guids[n.guid].mtime < n.mtime
    /\ \/ target_guids[n.guid].notetype_id # n.notetype_id
       \/ n.notetype_id \in DOMAIN remapped_notetypes

\* the incoming note is newer than the indexed note, of the same notetype
\* identifier, which is not remapped
IsUpdate(n) ==
    /\ n.guid \in DOMAIN target_guids
    /\ target_guids[n.guid].mtime < n.mtime
    /\ target_guids[n.guid].notetype_id = n.notetype_id
    /\ n.notetype_id \notin DOMAIN remapped_notetypes

(***************************************************************************)
(* C1                                                                      *)
(***************************************************************************)
\* what an iteration over a new note does, the stored fields being `fields`
NewNoteStored(fields) ==
    \E id \in DOMAIN col_notes' :
        /\ InsertedAs(id)
        /\ col_notes'[id].guid = note'.guid
        /\ col_notes'[id].fields = fields
        /\ LoggedOnlyUnder("new")
        /\ Last(imports'.log.new).id = id

\* C1 as stated: for every incoming note whose GUID is absent from the GUID
\* index, the iteration (when it runs to its end) inserts exactly one note
\* carrying the incoming fields, under an identifier not used in the target
\* before, and logs it under `new` only.
C1_AsStated ==
    [][NoteStep /\ IsNew(note') /\ Completed
          => outcome' = "new" /\ NewNoteStored(note'.fields)]_vars

\* C1, amended: for every incoming note whose GUID is absent from the GUID
\* index and whose iteration does not end in an error, exactly one note is
\* inserted, under an identifier not used in the target before; it carries
\* the incoming fields as media-reference rewriting and field normalization
\* leave them; it is logged under `new` only.
C1_NewNoteInserted ==
    [][NoteStep /\ IsNew(note') /\ Completed
          => outcome' = "new" /\ NewNoteStored(RewrittenFields(note'))]_vars

\* a new note with a media reference that the media map renames was inserted
C1_Witness ==
    /\ outcome = "new"
    /\ note.guid \notin DOMAIN target_guids
    /\ RewrittenFields(note) # note.fields
    /\ \E id \in DOMAIN col_notes :
          /\ col_notes[id].guid = note.guid
          /\ col_notes[id].fields = RewrittenFields(note)
          /\ Last(imports.log.new).id = id

(***************************************************************************)
(* C2                                                                      *)
(***************************************************************************)
\* C2: when a new note's identifier is among the target identifiers, the note
\* is stored under the first of id + 999, id + 2 * 999, ... that is not among
\* them (every earlier one is), and the identity map sends the identifier the
\* note came with to the one it is stored under.
C2_CollisionBumped ==
    [][NoteStep /\ IsNew(note') /\ outcome' = "new" /\ note'.id \in DOMAIN col_notes
          => \E k \in 1..(MaxNotes + 2) :
                LET id == note'.id + k * IdStep
                IN  /\ InsertedAs(id)
                    /\ id \notin target_ids
                    /\ \A j \in 0..(k - 1) : note'.id + j * IdStep \in DOMAIN col_notes
                    /\ note'.id \in DOMAIN imports'.id_map
                    /\ imports'.id_map[note'.id] = id
                    /\ note'.id \notin DOMAIN col_notes' \ DOMAIN col_notes]_vars

\* a new note was stored two steps above the identifier it came with
C2_Witness ==
    /\ outcome = "new"
    /\ note.id \in DOMAIN imports.id_map
    /\ imports.id_map[note.id] = note.id + 2 * IdStep
    /\ imports.id_map[note.id] \in DOMAIN col_notes
    /\ col_notes[imports.id_map[note.id]].guid = note.guid
    /\ Last(imports.log.new).id = note.id + 2 * IdStep

(***************************************************************************)
(* C3                                                                      *)
(***************************************************************************)
\* what an iteration over an updating note does, the stored fields being
\* `fields`
NoteUpdated(fields) ==
    LET target_id == target_guids[note'.guid].id
    IN  /\ outcome' = "updated"
        /\ DOMAIN col_notes' = DOMAIN col_notes
        /\ \A k \in DOMAIN col_notes \ {target_id} : col_notes'[k] = col_notes[k]
        /\ target_id \in DOMAIN col_notes'
        /\ col_notes'[target_id].id = target_id
        /\ col_notes'[target_id].guid = note'.guid
        /\ col_notes'[target_id].fields = fields
        /\ LoggedOnlyUnder("updated")
        /\ note'.id \in DOMAIN imports'.id_map
        /\ imports'.id_map[note'.id] = target_id

\* C3 as stated: for every incoming note that is newer than the indexed note
\* of its GUID, of the same notetype identifier, which is not remapped: the
\* target note's fields equal the incoming fields, it keeps its identifier,
\* no note is created, the note is logged under `updated`, and the identity
\* map sends the source identifier to the target identifier.
C3_AsStated ==
    [][NoteStep /\ IsUpdate(note') /\ Completed => NoteUpdated(note'.fields)]_vars

\* C3, amended: as stated, except that the target note's fields equal the
\* incoming fields as media-reference rewriting and field normalization leave
\* them.
C3_NoteUpdated ==
    [][NoteStep /\ IsUpdate(note') /\ Completed
          => NoteUpdated(RewrittenFields(note'))]_vars

\* a note was updated from an incoming note with another identifier, whose
\* media reference the media map renames
C3_Witness ==
    /\ outcome = "updated"
    /\ note.guid \in DOMAIN target_guids
    /\ note.id # target_guids[note.guid].id
    /\ RewrittenFields(note) # note.fields
    /\ col_notes[target_guids[note.guid].id].fields = RewrittenFields(note)
    /\ imports.id_map[note.id] = target_guids[note.guid].id
    /\ imports.log.updated # <<>>

(***************************************************************************)
(* C4                                                                      *)
(***************************************************************************)
\* C4: for every incoming note that matches an indexed note of equal or newer
\* modification time, whatever its notetype identifier and the remapping
\* table, the iteration leaves the notes and notetypes of the target as they
\* are and logs the note under `duplicate` only.
C4_DuplicateLeavesTarget ==
    [][NoteStep /\ IsDuplicate(note')
          => /\ outcome' = "duplicate"
             /\ col_notes' = col_notes
             /\ col_notetypes' = col_notetypes
             /\ target_ids' = target_ids
             /\ LoggedOnlyUnder("duplicate")]_vars

\* a note of equal modification time, whose notetype identifier is remapped
\* and differs from the target note's, was logged as a duplicate
C4_Witness ==
    /\ outcome = "duplicate"
    /\ note.guid \in DOMAIN target_guids
    /\ target_guids[note.guid].mtime = note.mtime
    /\ note.notetype_id \in DOMAIN remapped_notetypes
    /\ col_notes[target_guids[note.guid].id].fields = OldFields
    /\ imports.log.duplicate # <<>>

(***************************************************************************)
(* C5                                                                      *)
(***************************************************************************)
\* C5: for every incoming note that is newer than the indexed note of its
\* GUID and whose notetype identifier differs from that note's or is in the
\* remapping table, the iteration leaves the target collection as it is and
\* logs the note under `conflicting` only.
C5_ConflictLeavesTarget ==
    [][NoteStep /\ IsConflict(note')
          => /\ outcome' = "conflicting"
             /\ col_notes' = col_notes
             /\ col_notetypes' = col_notetypes
             /\ target_ids' = target_ids
             /\ LoggedOnlyUnder("conflicting")]_vars

\* a newer note of the target note's notetype identifier, which is remapped,
\* was logged as conflicting
C5_Witness ==
    /\ outcome = "conflicting"
    /\ note.guid \in DOMAIN target_guids
    /\ target_guids[note.guid].notetype_id = note.notetype_id
    /\ note.notetype_id \in DOMAIN remapped_notetypes
    /\ col_notes[target_guids[note.guid].id].fields = OldFields
    /\ imports.log.conflicting # <<>>

(***************************************************************************)
(* C6                                                                      *)
(***************************************************************************)
\* the identifier the note of this iteration has in the target
TargetIdOf(n) ==
    IF n.guid \in DOMAIN target_guids
    THEN target_guids[n.guid].id
    ELSE Last(imports'.log.new).id

\* C6 as stated: every outcome appends one entry to exactly one of the four
\* log sequences and puts one entry into the identity map, from the note's
\* source identifier to the identifier the note has in the target.
C6_AsStated ==
    [][NoteStep /\ Completed
          => /\ LoggedOnlyUnder(outcome')
             /\ note'.id \in DOMAIN imports'.id_map
             /\ imports'.id_map[note'.id] = TargetIdOf(note')]_vars

\* C6, amended: every outcome appends one entry to exactly one of the four
\* log sequences; `new`, `updated` and `duplicate` set the identity map's
\* entry of the note's source identifier (and no other) to the identifier the
\* note has in the target; `conflicting` leaves the identity map as it is.
C6_OneLogEntryPerOutcome ==
    [][NoteStep /\ Completed
          => /\ LoggedOnlyUnder(outcome')
             /\ IF outcome' = "conflicting"
                THEN imports'.id_map = imports.id_map
                ELSE imports'.id_map =
                        Put(imports.id_map, note'.id, TargetIdOf(note'))]_vars

\* a conflicting note was logged and its source identifier is not in the
\* identity map
C6_Witness ==
    /\ outcome = "conflicting"
    /\ Len(imports.log.conflicting) = 1
    /\ note.id \notin DOMAIN imports.id_map

(***************************************************************************)
(* C7                                                                      *)
(***************************************************************************)
\* C7: for a note classified `duplicate`, the identity map sends the incoming
\* note's identifier to the indexed target note's identifier, and the entry
\* appended to the `duplicate` log carries that target identifier and the
\* fields of the incoming note (as the log renders them, no media reference
\* rewritten).
C7_DuplicateLogged ==
    [][NoteStep /\ outcome' = "duplicate"
          => LET target_id == target_guids[note'.guid].id
             IN  /\ note'.id \in DOMAIN imports'.id_map
                 /\ imports'.id_map[note'.id] = target_id
                 /\ Last(imports'.log.duplicate).id = target_id
                 /\ Last(imports'.log.duplicate).fields
                        = into_log_note(note').fields
                 /\ Len(imports'.log.duplicate)
                        = Len(imports.log.duplicate) + 1]_vars

\* a duplicate with another identifier than the target note's, and a media
\* reference the media map would rename, was logged
C7_Witness ==
    /\ outcome = "duplicate"
    /\ note.id # target_guids[note.guid].id
    /\ RewrittenFields(note) # note.fields
    /\ Last(imports.log.duplicate).id = target_guids[note.guid].id
    /\ imports.id_map[note.id] = target_guids[note.guid].id

(***************************************************************************)
(* C8                                                                      *)
(***************************************************************************)
\* the incoming notetype's identifier is in the target and the fingerprints
\* of the two differ
SchemaDiverged(nt) ==
    /\ nt.id \in DOMAIN col_notetypes
    /\ schema_hash(nt) # schema_hash(col_notetypes[nt.id])

\* this step stores the incoming notetype under a new identifier new_id and
\* leaves every notetype of the target as it is
StoredUnderNewId(nt, new_id) ==
    /\ new_id \notin DOMAIN col_notetypes
    /\ new_id # nt.id
    /\ DOMAIN col_notetypes' = DOMAIN col_notetypes \cup {new_id}
    /\ \A k \in DOMAIN col_notetypes : col_notetypes'[k] = col_notetypes[k]
    /\ col_notetypes'[new_id].id = new_id
    /\ col_notetypes'[new_id].fields = nt.fields
    /\ col_notetypes'[new_id].templates = nt.templates

\* C8: an incoming notetype whose identifier is in the target with another
\* fingerprint is stored under a newly allocated identifier, the existing
\* notetypes staying as they are, and the table gains old_id -> new_id; every
\* note then classified `new` that references a remapped identifier is stored
\* with the identifier the table gives; an iteration classified updated,
\* duplicate or conflicting changes no stored note's notetype identifier.
C8_DivergedNotetypeRemapped ==
    [][/\ NotetypeStep /\ SchemaDiverged(notetype')
            => \E new_id \in DOMAIN col_notetypes' :
                  /\ StoredUnderNewId(notetype', new_id)
                  /\ remapped_notetypes' =
                        Put(remapped_notetypes, notetype'.id, new_id)
       /\ NoteStep /\ outcome' = "new"
            => \E id \in DOMAIN col_notes' \ DOMAIN col_notes :
                  col_notes'[id].notetype_id =
                     IF note'.notetype_id \in DOMAIN remapped_notetypes
                     THEN remapped_notetypes[note'.notetype_id]
                     ELSE note'.notetype_id
       /\ NoteStep /\ outcome' \in {"updated", "duplicate", "conflicting"}
            => /\ DOMAIN col_notes' = DOMAIN col_notes
               /\ \A k \in DOMAIN col_notes :
                     col_notes'[k].notetype_id = col_notes[k].notetype_id]_vars

\* a new note that came with a remapped notetype identifier is stored with
\* the identifier the table gives, under which the diverged notetype is stored
C8_Witness ==
    /\ outcome = "new"
    /\ note.notetype_id \in DOMAIN remapped_notetypes
    /\ remapped_notetypes[note.notetype_id] # note.notetype_id
    /\ remapped_notetypes[note.notetype_id] \in DOMAIN col_notetypes
    /\ col_notetypes[note.notetype_id] = Basic
    /\ \E id \in DOMAIN col_notes :
          /\ col_notes[id].guid = note.guid
          /\ col_notes[id].notetype_id = remapped_notetypes[note.notetype_id]

(***************************************************************************)
(* C9                                                                      *)
(***************************************************************************)
\* C9: the table gains an entry only in an iteration of import_notetypes
\* over a notetype whose identifier is in the target with another
\* fingerprint, and the entry is that identifier's; a notetype that is absent
\* from the target is stored under its own identifier (or, if it is rejected
\* as invalid, not at all), and one whose fingerprint is unchanged under no
\* identifier that was not there: neither adds an entry.
C9_RemapOnlyWhenDiverged ==
    [][/\ ~NotetypeStep => remapped_notetypes' = remapped_notetypes
       /\ NotetypeStep /\ remapped_notetypes' # remapped_notetypes
            => /\ SchemaDiverged(notetype')
               /\ DOMAIN remapped_notetypes' =
                     DOMAIN remapped_notetypes \cup {notetype'.id}
               /\ \A k \in DOMAIN remapped_notetypes \ {notetype'.id} :
                     remapped_notetypes'[k] = remapped_notetypes[k]
       /\ NotetypeStep /\ ~SchemaDiverged(notetype')
            => /\ remapped_notetypes' = remapped_notetypes
               /\ DOMAIN col_notetypes' \subseteq DOMAIN col_notetypes \cup {notetype'.id}
               /\ pc' # "failed"
                    => /\ notetype'.id \in DOMAIN col_notetypes'
                       /\ col_notetypes'[notetype'.id].id = notetype'.id]_vars

\* a notetype absent from the target was stored under its own identifier
\* without an entry, and the last notetype iterated, of another fingerprint
\* than the target's, has one
C9_Witness ==
    /\ pc = "notetypes"
    /\ nt_seen = 2
    /\ 2 \in DOMAIN col_notetypes
    /\ 2 \notin DOMAIN remapped_notetypes
    /\ DOMAIN remapped_notetypes = {notetype.id}
    /\ remapped_notetypes[notetype.id] \in DOMAIN col_notetypes \ {1, 2}
    /\ schema_hash(notetype) # schema_hash(col_notetypes[notetype.id])

(***************************************************************************)
(* C10                                                                     *)
(***************************************************************************)
\* the incoming notetype's identifier is in the target and the fingerprints
\* of the two are equal
SchemaMatches(nt) ==
    /\ nt.id \in DOMAIN col_notetypes
    /\ schema_hash(nt) = schema_hash(col_notetypes[nt.id])

\* C10: when the incoming notetype's identifier is in the target and the
\* fingerprints match, the stored notetype takes the incoming content under
\* the same identifier if the incoming modification time is strictly newer,
\* and the target's notetypes stay as they are if it is equal or older.
C10_MergeOnlyIfNewer ==
    [][NotetypeStep /\ SchemaMatches(notetype')
          => LET nt == notetype'
                 existing == col_notetypes[nt.id]
             IN  /\ DOMAIN col_notetypes' = DOMAIN col_notetypes
                 /\ \A k \in DOMAIN col_notetypes \ {nt.id} :
                       col_notetypes'[k] = col_notetypes[k]
                 /\ IF nt.mtime_secs > existing.mtime_secs
                    THEN /\ col_notetypes'[nt.id] = [nt EXCEPT !.usn = usn]
                         /\ col_notetypes'[nt.id] # existing
                    ELSE col_notetypes'[nt.id] = existing]_vars

\* the target's notetype has been overwritten by a newer incoming one of the
\* same fingerprint
C10_Witness ==
    /\ pc = "notetypes"
    /\ nt_seen > 0
    /\ notetype.id = 1
    /\ notetype.mtime_secs > Basic.mtime_secs
    /\ schema_hash(notetype) = schema_hash(Basic)
    /\ col_notetypes[1] = [notetype EXCEPT !.usn = usn]
    /\ DOMAIN col_notetypes = {1}

(***************************************************************************)
(* C11                                                                     *)
(***************************************************************************)
\* the file name the rule gives a media reference to `name`
MediaRule(name) ==
    IF name \in UnsafeNames THEN name
    ELSE IF Nfc(name) \in DOMAIN media_map /\ media_map[Nfc(name)] # name
         THEN media_map[Nfc(name)]
    ELSE IF Nfc(name) # name THEN Nfc(name)
    ELSE name

\* the note of the target that the last iteration inserted or updated
StoredNote == col_notes[imports.id_map[note.id]]

\* C11: in every note that is inserted or updated, each media reference
\* carries the name the rule gives it: the name it came with if that cannot
\* be normalized; else the media use map's name for its normal form if there
\* is one that differs from the name it came with; else its normal form if
\* that differs from it; else the name it came with.  What is not a media
\* reference is not touched by the rewriting.  (Field normalization, if
\* enabled, then applies to the field text as a whole.)
C11_MediaReferencesRewritten ==
    [][NoteStep /\ outcome' \in {"new", "updated"}
          => LET stored == col_notes'[imports'.id_map[note'.id]]
             IN  /\ DOMAIN stored.fields = DOMAIN note'.fields
                 /\ \A i \in DOMAIN note'.fields :
                       /\ DOMAIN stored.fields[i] = DOMAIN note'.fields[i]
                       /\ \A j \in DOMAIN note'.fields[i] :
                             LET t == note'.fields[i][j]
                                 v == IF t.kind = "img" THEN MediaRule(t.val)
                                      ELSE t.val
                             IN  /\ stored.fields[i][j].kind = t.kind
                                 /\ stored.fields[i][j].val =
                                       IF normalize_notes THEN Nfc(v) ELSE v]_vars

\* a note was stored whose reference to foo.jpg has become one to bar.jpg
\* and whose reference to a name not in normal form, unknown to the media
\* use map, has become one to the normal form
C11_Witness ==
    /\ outcome \in {"new", "updated"}
    /\ "nfc.jpg" \notin DOMAIN media_map
    /\ "foo.jpg" \in DOMAIN media_map
    /\ note.fields[1] = <<Img("foo.jpg"), Text("plain"), Img("nfd.jpg")>>
    /\ StoredNote.fields[1][1] = Img("bar.jpg")
    /\ StoredNote.fields[1][3] = Img("nfc.jpg")

(***************************************************************************)
(* C12                                                                     *)
(***************************************************************************)
\* C12: an iteration over a note whose GUID is in the GUID index and that is
\* a duplicate (the indexed note is not older) or a conflict (newer, its
\* notetype identifier another than the indexed note's, be it one the target
\* does not have, or a remapped one) returns no error: it ends as
\* `duplicate` or `conflicting`, and the loop goes on with the next note if
\* there is one, else import_notes returns Ok.
C12_DisagreementsNeverAbort ==
    [][NoteStep /\ (IsDuplicate(note') \/ IsConflict(note'))
          => /\ outcome' = IF IsDuplicate(note') THEN "duplicate" ELSE "conflicting"
             /\ pc' # "failed"
             /\ pc' = IF notes_left' > 0 THEN "notes" ELSE "done"]_vars

\* a note of a notetype identifier the target does not have was logged as
\* conflicting, and the note after it was imported
C12_Witness ==
    /\ DOMAIN col_notetypes = {1}
    /\ remapped_notetypes = EmptyMap
    /\ imports.log.found_notes = 2
    /\ Len(imports.log.conflicting) = 1
    /\ outcome = "new"
    /\ Len(imports.log.new) = 1
    /\ pc = "done"

(***************************************************************************)
(* C13                                                                     *)
(***************************************************************************)
\* the notetype identifier a new note is stored with: the remapping table's
\* for the one it came with, if it has one
ExpectedNotetypeId(n) ==
    IF n.notetype_id \in DOMAIN remapped_notetypes
    THEN remapped_notetypes[n.notetype_id]
    ELSE n.notetype_id

\* this step fails with not-found and leaves the notes of the target, the
\* four logs, the identity map and the identifier-collision set as they are
FailsWithNotFound ==
    /\ outcome' = "not_found"
    /\ pc' = "failed"
    /\ col_notes' = col_notes
    /\ imports' = imports
    /\ target_ids' = target_ids

\* C13: an iteration over a new note whose notetype identifier (the
\* remapping table applied) is not in the target fails with not-found: no
\* note is inserted, nothing is logged, the identity map and the
\* identifier-collision set stay as they are; so does an iteration over a
\* note to update whose indexed target note is not in storage; and once
\* import_notes has failed, no later note is processed.
C13_NotFoundIsFatal ==
    [][/\ pc # "failed"
       /\ NoteStep /\ IsNew(note')
             /\ ExpectedNotetypeId(note') \notin DOMAIN col_notetypes
            => FailsWithNotFound
       /\ NoteStep /\ IsUpdate(note')
             /\ target_guids[note'.guid].id \notin DOMAIN col_notes
            => FailsWithNotFound]_vars

\* the first of two notes, a new one of a notetype the target does not have,
\* has failed with not-found: nothing was inserted or logged, and the note
\* after it is left unprocessed
C13_Witness ==
    /\ pc = "failed"
    /\ outcome = "not_found"
    /\ imports.log.found_notes = 2
    /\ notes_left = 1
    /\ note.guid \notin DOMAIN target_guids
    /\ ExpectedNotetypeId(note) \notin DOMAIN col_notetypes
    /\ \A i \in DOMAIN col_notes : col_notes[i].guid # note.guid
    /\ target_ids = DOMAIN col_notes
    /\ imports.id_map = EmptyMap
    /\ \A k \in Kinds : imports.log[k] = <<>>

(***************************************************************************)
(* C14                                                                     *)
(***************************************************************************)
\* C14: when the progress reporter fails at a note, import_notes returns the
\* error at once: that step inserts and updates no note and adds nothing to
\* the logs and the identity map, and leaves what the notes before it have
\* stored and logged; after it no note is processed.
C14_ProgressFailureAborts ==
    [][/\ outcome # "progress"
       /\ outcome' = "progress"
            => /\ pc = "notes" /\ pc' = "failed"
               /\ notes_left' = notes_left
               /\ col_notes' = col_notes
               /\ imports' = imports
               /\ target_ids' = target_ids]_vars

\* the progress reporter has failed at the second of two notes: the first
\* one is stored and logged, the second one is not
C14_Witness ==
    /\ pc = "failed"
    /\ outcome = "progress"
    /\ imports.log.found_notes = 2
    /\ notes_left = 1
    /\ Len(imports.log.new) = 1
    /\ DOMAIN imports.id_map = {note.id}
    /\ imports.id_map[note.id] \in DOMAIN col_notes
    /\ col_notes[imports.id_map[note.id]].guid = note.guid
    /\ \A k \in Kinds \ {"new"} : imports.log[k] = <<>>

(***************************************************************************)
(* C15                                                                     *)
(***************************************************************************)
\* the two notetypes have the same field names in the same order and the
\* same template names in the same order
SameNames(a, b) == a.fields = b.fields /\ a.templates = b.templates

\* C15: the fingerprints of an incoming notetype and of the target's
\* notetype of the same identifier are equal if and only if the two have
\* equal sequences of field names and equal sequences of template names.
C15_FingerprintIsStructural ==
    [][NotetypeStep /\ notetype'.id \in DOMAIN col_notetypes
          => (schema_hash(notetype') = schema_hash(col_notetypes[notetype'.id])
                <=> SameNames(notetype', col_notetypes[notetype'.id]))]_vars

(***************************************************************************)
(* C16                                                                     *)
(***************************************************************************)
\* the outcome class the GUID index and the remapping table give note n
ClassOf(n) ==
    IF IsNew(n) THEN "new"
    ELSE IF IsDuplicate(n) THEN "duplicate"
    ELSE IF IsConflict(n) THEN "conflicting"
    ELSE "updated"

\* C16: import_notes never modifies the GUID index (nor the remapping
\* table); the outcome of every iteration that runs to its end is the class
\* that the index and the table give the note, whatever the notes before it
\* have stored; the identifier-collision set only grows, and only by the
\* identifier of a note inserted as new.
C16_GuidIndexIsSnapshot ==
    [][/\ target_guids' = target_guids
       /\ NoteStep
            => /\ remapped_notetypes' = remapped_notetypes
               /\ Completed => outcome' = ClassOf(note')
               /\ outcome' = "not_found" => ClassOf(note') \in {"new", "updated"}
               /\ target_ids \subseteq target_ids'
               /\ target_ids' # target_ids
                    => /\ outcome' = "new"
                       /\ target_ids' = target_ids \cup {imports'.id_map[note'.id]}
                       /\ InsertedAs(imports'.id_map[note'.id])]_vars

\* two incoming notes of one GUID that the GUID index does not have were
\* both inserted as new
C16_Witness ==
    /\ outcome = "new"
    /\ note.guid \notin DOMAIN target_guids
    /\ Len(imports.log.new) = 2
    /\ \E i, j \in DOMAIN col_notes :
          /\ i # j
          /\ col_notes[i].guid = note.guid
          /\ col_notes[j].guid = note.guid
          /\ imports.log.new[1].id = i
          /\ imports.log.new[2].id = j
    /\ target_ids = DOMAIN col_notes

(***************************************************************************)
(* C17                                                                     *)
(***************************************************************************)
\* C17: for a new note whose notetype is in the target, the resolution of
\* its identifier ends: the note is stored under note.id + k * 999 for the
\* least k >= 0 for which that is not among the target identifiers, every
\* sum on the way being within the range of identifiers; the identifier the
\* note came with is the one handed to the identity map; the identifier it
\* ends with is fixed by the target identifiers and the one it came with.
C17_UniquifyTerminates ==
    [][NoteStep /\ IsNew(note')
             /\ ExpectedNotetypeId(note') \in DOMAIN col_notetypes
          => /\ outcome' = "new"
             /\ \E k \in 0..Cardinality(target_ids) :
                   LET id == note'.id + k * IdStep
                   IN  /\ id <= MaxNoteId
                       /\ id \notin target_ids
                       /\ \A j \in 0..(k - 1) : note'.id + j * IdStep \in target_ids
                       /\ InsertedAs(id)
                       /\ note'.id \in DOMAIN imports'.id_map
                       /\ imports'.id_map[note'.id] = id]_vars

(***************************************************************************)
(* C18                                                                     *)
(***************************************************************************)
\* the identifiers of the notes the target had when the session began (the
\* GUID index has one entry for each of them)
PreSessionIds == {target_guids[g].id : g \in DOMAIN target_guids}

\* the identifiers under which the session has inserted notes, in order
InsertedIds == [i \in DOMAIN imports.log.new |-> imports.log.new[i].id]

\* C18: at every point of a session, the notes it has inserted have
\* identifiers that no note of the target had before and that differ from
\* one another; the target holds just the notes it had and the inserted
\* ones, and no insert has taken the place of a note that was there.
C18_NoteIdsUnique ==
    /\ \A i \in DOMAIN InsertedIds : InsertedIds[i] \notin PreSessionIds
    /\ \A i, j \in DOMAIN InsertedIds : i # j => InsertedIds[i] # InsertedIds[j]
    /\ DOMAIN col_notes = PreSessionIds \cup {InsertedIds[i] : i \in DOMAIN InsertedIds}
    /\ \A g \in DOMAIN target_guids : col_notes[target_guids[g].id].guid = g
    /\ target_ids = DOMAIN col_notes

\* two new notes that came with one identifier, which a note of the target
\* has, were inserted one and two steps above it
C18_Witness ==
    /\ outcome = "new"
    /\ note.id \in PreSessionIds
    /\ col_notes[note.id].guid # note.guid
    /\ Len(imports.log.new) = 2
    /\ InsertedIds = <<note.id + IdStep, note.id + 2 * IdStep>>
    /\ col_notes[note.id + IdStep].guid = note.guid
    /\ col_notes[note.id + 2 * IdStep].guid = note.guid

(***************************************************************************)
(* C19                                                                     *)
(***************************************************************************)
\* C19: whenever an iteration of import_notes changes the content stored for
\* a note of the target, the incoming note's modification time is strictly
\* newer than that of the content it replaces, be that content the target's
\* own or written by an earlier note of the batch.
C19_CausalityPreserved ==
    [][NoteStep
          => \A id \in DOMAIN col_notes :
                col_notes'[id] # col_notes[id]
                    => note'.mtime > col_notes[id].mtime]_vars

(***************************************************************************)
(* C20                                                                     *)
(***************************************************************************)
\* the count of entries of that kind
KindCount(c, kind) ==
    CASE kind = "New" -> c.new
      [] kind = "Review" -> c.review
      [] kind = "InterdayLearning" -> c.learning

\* the counts c with the count of that kind set to v
WithKindCount(c, kind, v) ==
    CASE kind = "New" -> [c EXCEPT !.new = v]
      [] kind = "Review" -> [c EXCEPT !.review = v]
      [] kind = "InterdayLearning" -> [c EXCEPT !.learning = v]

\* this step is a call of pop_main
PopStep == last_call'.op = "pop_main" /\ before_pop' = [main |-> main, counts |-> counts]

\* this step is the call of push_main with the entry that the call of
\* pop_main before it returned
UndoStep ==
    /\ last_call.op = "pop_main"
    /\ popped # <<>>
    /\ last_call' = Call("push_main", popped)

\* C20 as stated: pop_main on a main queue that is not empty removes and
\* returns its head and reduces the count of the head's kind by one, and
\* push_main with the returned entry then restores the main queue and the
\* three counts to what they were before the pop; on an empty main queue
\* pop_main returns None and changes nothing.
C20_AsStated ==
    [][/\ PopStep /\ main = <<>>
            => popped' = <<>> /\ main' = main /\ counts' = counts
       /\ PopStep /\ main # <<>>
            => /\ popped' = <<Head(main)>>
               /\ main' = Tail(main)
               /\ counts' = WithKindCount(counts, Head(main).kind,
                                KindCount(counts, Head(main).kind) - 1)
       /\ UndoStep
            => main' = before_pop.main /\ counts' = before_pop.counts]_vars

\* C20, amended: pop_main on a main queue that is not empty removes and
\* returns its head; it reduces the count of the head's kind by one if that
\* count is at least one, and leaves a learning count of zero at zero;
\* push_main with the returned entry then restores the main queue, and
\* restores the three counts if the count of the entry's kind was at least
\* one before the pop (of a learning count of zero it makes one); on an
\* empty main queue pop_main returns None and changes nothing.
C20_PushUndoesPop ==
    [][/\ PopStep /\ main = <<>>
            => popped' = <<>> /\ main' = main /\ counts' = counts
       /\ PopStep /\ main # <<>>
            => LET kind == Head(main).kind
                   n == KindCount(counts, kind)
               IN  /\ popped' = <<Head(main)>>
                   /\ main' = Tail(main)
                   /\ n >= 1 => counts' = WithKindCount(counts, kind, n - 1)
                   /\ n = 0 => kind = "InterdayLearning" /\ counts' = counts
       /\ UndoStep
            => LET kind == popped[1].kind
                   n == KindCount(before_pop.counts, kind)
               IN  /\ main' = before_pop.main
                   /\ n >= 1 => counts' = before_pop.counts
                   /\ n = 0 => counts' = WithKindCount(before_pop.counts, kind, 1)]_vars

\* the head of a main queue of two entries was popped and pushed again: the
\* queue and the three counts are as they were before the pop
C20_Witness ==
    /\ last_call.op = "push_main"
    /\ last_call.arg = popped
    /\ Len(main) = 2
    /\ Head(main) = popped[1]
    /\ main = before_pop.main
    /\ counts = before_pop.counts
    /\ KindCount(counts, popped[1].kind) >= 1

====
